---- MODULE Spec2Model ----
(***************************************************************************)
(* A model of HOGFeatures.cpp: the strided convolution convolve(), the     *)
(* batch driver pdf(), the pyramid builder pyramid() and the feature       *)
(* extractor features().  Each function has its own specification          *)
(* (SpecConv, SpecPdf, SpecPyr, SpecFeat) over one set of variables; the   *)
(* variables of the functions a specification does not run stay at their   *)
(* idle values.                                                            *)
(*                                                                         *)
(* Matrices (cv::Mat) are records [rows, cols, depth, data] with data the  *)
(* continuous row-major buffer; a pointer is a 0-based offset into it.     *)
(* Values of the working type T are integers: exact for the integer-valued *)
(* matrices of convolve(), fixed-point (units of 1/FP) in features().      *)
(* Assertions are compiled in (NDEBUG is not defined).                     *)
(***************************************************************************)
EXTENDS Integers, Sequences, FiniteSets, TLC

VARIABLES
  \* convolve(): arguments, locals, result
  feature, filter, stride, filterDepth, pdf, pdf_ptr, m, n, cpc,
  \* pdf(): arguments, per-iteration locals, result
  features, filters, heap, responses, response, ipc, writes, calls, ppc,
  \* members of the HOGFeatures instance
  flen_, binsize_, nscales_, scales_,
  \* pyramid(): argument, locals (per chain, per level), result
  im, pyraimages, pyrafeatures, scaled, chainj, rawfeature, lpc, pypc,
  \* features(): argument, locals, result
  src, histm, normm, featm, y, x, pn, fpc

convVars == <<feature, filter, stride, filterDepth, pdf, pdf_ptr, m, n, cpc>>
pdfVars  == <<features, filters, heap, responses, response, ipc, writes, calls,
              ppc>>
instVars == <<flen_, binsize_, nscales_, scales_>>
pyrVars  == <<im, pyraimages, pyrafeatures, scaled, chainj, rawfeature, lpc, pypc>>
featVars == <<src, histm, normm, featm, y, x, pn, fpc>>
vars     == <<convVars, pdfVars, instVars, pyrVars, featVars>>

----------------------------------------------------------------------------
(* Bounds of the model *)

MaxRows   == 3    \* rows of a feature map handed to convolve()
MaxCols   == 6    \* columns (flattened) of a feature map handed to convolve()
MaxStride == 3    \* stride (= flen) handed to convolve(), at least 2
MaxCells  == 2    \* spatial width of a filter, in cells
MaxDepth  == 3    \* per-cell channel depth of a filter
MaxSeed   == 1    \* number of value patterns the matrices are filled from, minus 1

Max(a, b) == IF a >= b THEN a ELSE b
Min(a, b) == IF a <= b THEN a ELSE b

----------------------------------------------------------------------------
(* cv::Mat *)

NoMat == [rows |-> 0, cols |-> 0, depth |-> "none", data |-> <<>>]

\* feature.ptr<T>(r) - feature.ptr<T>(0) of a continuous matrix
RowPtr(mat, r) == r * mat.cols

\* *(ptr) for ptr = mat.ptr<T>(0) + off
Deref(mat, off) == mat.data[off + 1]

\* The matrices the callers hand in: filled from a value pattern.
PatternMat(rows, cols, depth, seed) ==
  [rows |-> rows, cols |-> cols, depth |-> depth,
   data |-> [k \in 1..(rows * cols) |-> ((k * k + seed * (k + 1)) % 3) + seed]]

\* Values an uninitialised buffer may hold.
Garbage == {-7, 0}

----------------------------------------------------------------------------
(* convolve() *)

\* lines 296-297: the two assertions
AssertsNoCols(feat, filt, s) ==
  /\ feat.depth = filt.depth
  /\ feat.cols % s = 0

AssertsHold(feat, filt, s) ==
  /\ feat.depth = filt.depth
  /\ feat.cols % s = 0 /\ filt.cols % s = 0

\* lines 300-303
ConvM(feat, filt) == feat.rows - filt.rows + 1
ConvN(feat, filt, s) == feat.cols - filt.cols + s

\* lines 316-318: while (filt_ptr < filt_start+h*W) accum += *(filt_ptr++) * *(feat_ptr++)
RECURSIVE MulAcc(_, _, _, _, _, _)
MulAcc(feat, filt, feat_ptr, filt_ptr, limit, accum) ==
  IF filt_ptr < limit
  THEN MulAcc(feat, filt, feat_ptr + 1, filt_ptr + 1, limit,
              accum + Deref(filt, filt_ptr) * Deref(feat, feat_ptr))
  ELSE accum

\* lines 315-320: for (h = 0; h < H; ++h) { while ...; feat_ptr = feature.ptr(m+h) + n; }
RECURSIVE RowLoop(_, _, _, _, _, _, _, _)
RowLoop(feat, filt, mm, nn, h, filt_ptr, feat_ptr, accum) ==
  IF h >= filt.rows THEN accum
  ELSE RowLoop(feat, filt, mm, nn, h + 1,
               Max(filt_ptr, h * filt.cols),
               RowPtr(feat, mm + h) + nn,
               MulAcc(feat, filt, feat_ptr, filt_ptr, h * filt.cols, accum))

\* lines 312-320: the value accumulated for output position (m, n)
Accum(feat, filt, mm, nn) ==
  RowLoop(feat, filt, mm, nn, 0, 0, RowPtr(feat, mm) + nn, 0)

\* line 304: pdf.create(Size(M, N), type): Size is (width, height), so the
\* matrix has N rows and M columns; its buffer is not initialised.
Create(M, N, depth, g) ==
  [rows |-> N, cols |-> M, depth |-> depth, data |-> [k \in 1..(M * N) |-> g]]

ConvInit ==
  /\ stride \in 2..MaxStride
  /\ \E fr \in 1..MaxRows, fc \in 1..MaxCols, seed \in 0..MaxSeed :
       feature = PatternMat(fr, fc, "CV_32F", seed)
  /\ filterDepth \in 1..MaxDepth
  /\ \E H \in 1..MaxRows, cells \in 1..MaxCells, seed \in 0..MaxSeed,
        depth \in {"CV_32F", "CV_64F"} :
       /\ H <= feature.rows
       /\ cells * filterDepth <= feature.cols
       /\ filter = PatternMat(H, cells * filterDepth, depth, seed + 1)
  /\ pdf = NoMat
  /\ pdf_ptr = 0
  /\ m = 0
  /\ n = 0
  /\ cpc = "assert"

\* lines 296-297 failing: the call aborts
ConvolveAssertFails ==
  /\ cpc = "assert"
  /\ ~AssertsHold(feature, filter, stride)
  /\ cpc' = "assert_failed"
  /\ UNCHANGED <<feature, filter, stride, filterDepth, pdf, pdf_ptr, m, n>>
  /\ UNCHANGED <<pdfVars, instVars, pyrVars, featVars>>

\* lines 296-308: the assertions hold, the response map is created
ConvolveCreate ==
  /\ cpc = "assert"
  /\ AssertsHold(feature, filter, stride)
  /\ \E g \in Garbage :
       pdf' = Create(ConvM(feature, filter), ConvN(feature, filter, stride),
                     feature.depth, g)
  /\ pdf_ptr' = 0
  /\ m' = 0
  /\ n' = 0
  /\ cpc' = "loop"
  /\ UNCHANGED <<feature, filter, stride, filterDepth>>
  /\ UNCHANGED <<pdfVars, instVars, pyrVars, featVars>>

\* lines 310-322: one iteration of the inner for loop, *(pdf_ptr++) = accum
ConvolveWrite ==
  /\ cpc = "loop"
  /\ m < ConvM(feature, filter)
  /\ n < ConvN(feature, filter, stride)
  /\ pdf' = [pdf EXCEPT !.data[pdf_ptr + 1] = Accum(feature, filter, m, n)]
  /\ pdf_ptr' = pdf_ptr + 1
  /\ IF n + stride < ConvN(feature, filter, stride)
     THEN n' = n + stride /\ m' = m
     ELSE n' = 0 /\ m' = m + 1
  /\ UNCHANGED <<feature, filter, stride, filterDepth, cpc>>
  /\ UNCHANGED <<pdfVars, instVars, pyrVars, featVars>>

\* line 324: both loops are over
ConvolveReturn ==
  /\ cpc = "loop"
  /\ m >= ConvM(feature, filter)
  /\ cpc' = "returned"
  /\ UNCHANGED <<feature, filter, stride, filterDepth, pdf, pdf_ptr, m, n>>
  /\ UNCHANGED <<pdfVars, instVars, pyrVars, featVars>>

\* The response map convolve() leaves behind when it returns: created by line
\* 304, the first M * ceil(N / stride) elements written by line 321 in loop
\* order, the rest of the buffer as allocated.
ConvolveResult(feat, filt, s, g) ==
  LET M == ConvM(feat, filt)
      N == ConvN(feat, filt, s)
      K == (N + s - 1) \div s
      created == Create(M, N, feat.depth, g)
  IN  [created EXCEPT !.data =
         [k \in 1..(M * N) |->
            IF k <= M * K
            THEN Accum(feat, filt, (k - 1) \div K, ((k - 1) % K) * s)
            ELSE g]]

----------------------------------------------------------------------------
(* pdf() *)

MaxMaps    == 2   \* feature maps handed to pdf()
MaxFilters == 2   \* filters handed to pdf()

\* lines 350-351
IterN(i, N) == i % N
IterM(i, N) == i \div N

\* line 354: the entry iteration i assigns
SlotByFilter(i) == i % Len(filters)

Slot(i) == i

Iterations == 0..(Len(features) * Len(filters) - 1)

PdfInit ==
  /\ flen_ \in 2..MaxStride
  /\ binsize_ = 1 /\ nscales_ = 0 /\ scales_ = <<>>
  /\ heap \in Garbage
  /\ \E M \in 0..MaxMaps :
       features = [k \in 1..M |-> PatternMat(1 + k, 2 * flen_, "CV_32F", k - 1)]
  /\ \E N \in 0..MaxFilters, bad \in 0..MaxFilters :
       /\ bad <= N
       /\ filters = [k \in 1..N |->
            PatternMat(2, IF k = bad THEN flen_ + 1 ELSE flen_, "CV_32F", k)]
  /\ responses = <<>>
  /\ response = <<>>
  /\ ipc = <<>>
  /\ writes = <<>>
  /\ calls = 0
  /\ ppc = "start"

\* lines 340-343: responses.clear(); responses.resize(M*N)
PdfResize ==
  /\ ppc = "start"
  /\ responses' = [k \in 1..(Len(features) * Len(filters)) |-> NoMat]
  /\ response' = [i \in Iterations |-> NoMat]
  /\ ipc' = [i \in Iterations |-> "todo"]
  /\ writes' = [i \in Iterations |-> 0]
  /\ ppc' = "parallel"
  /\ UNCHANGED <<features, filters, heap, calls>>
  /\ UNCHANGED <<convVars, instVars, pyrVars, featVars>>

\* lines 350-353 of iteration i: convolve(features[m], filters[n], response, flen_)
PdfConvolve(i) ==
  /\ ppc = "parallel"
  /\ ipc[i] = "todo"
  /\ LET nn == IterN(i, Len(filters))
         mm == IterM(i, Len(filters))
     IN  /\ AssertsHold(features[mm + 1], filters[nn + 1], flen_)
         /\ response' = [response EXCEPT ![i] =
              ConvolveResult(features[mm + 1], filters[nn + 1], flen_, heap)]
  /\ ipc' = [ipc EXCEPT ![i] = "computed"]
  /\ calls' = calls + 1
  /\ UNCHANGED <<features, filters, heap, responses, writes, ppc>>
  /\ UNCHANGED <<convVars, instVars, pyrVars, featVars>>

\* line 353 of iteration i, an assertion of convolve() failing: the program aborts
PdfAbort(i) ==
  /\ ppc = "parallel"
  /\ ipc[i] = "todo"
  /\ ~AssertsHold(features[IterM(i, Len(filters)) + 1],
                  filters[IterN(i, Len(filters)) + 1], flen_)
  /\ calls' = calls + 1
  /\ ppc' = "aborted"
  /\ UNCHANGED <<features, filters, heap, responses, response, ipc, writes>>
  /\ UNCHANGED <<convVars, instVars, pyrVars, featVars>>

\* line 354 of iteration i: responses[i] = response
PdfStore(i) ==
  /\ ppc = "parallel"
  /\ ipc[i] = "computed"
  /\ responses' = [responses EXCEPT ![Slot(i) + 1] = response[i]]
  /\ writes' = [writes EXCEPT ![Slot(i)] = @ + 1]
  /\ ipc' = [ipc EXCEPT ![i] = "stored"]
  /\ UNCHANGED <<features, filters, heap, response, calls, ppc>>
  /\ UNCHANGED <<convVars, instVars, pyrVars, featVars>>

\* line 356: the parallel loop has joined
PdfReturn ==
  /\ ppc = "parallel"
  /\ \A i \in Iterations : ipc[i] = "stored"
  /\ ppc' = "returned"
  /\ UNCHANGED <<features, filters, heap, responses, response, ipc, writes, calls>>
  /\ UNCHANGED <<convVars, instVars, pyrVars, featVars>>

----------------------------------------------------------------------------
(* Claims about convolve(), checked under SpecConv *)

\* sum over h in 0..H-1, w in 0..W-1 of filter[h][w] * feature[mm+h][k*s+w]
RECURSIVE InnerProduct(_, _, _, _, _, _)
InnerProduct(feat, filt, mm, k, s, t) ==
  IF t = 0 THEN 0
  ELSE LET h == (t - 1) \div filt.cols
           w == (t - 1) % filt.cols
       IN  Deref(filt, h * filt.cols + w)
             * Deref(feat, (mm + h) * feat.cols + k * s + w)
           + InnerProduct(feat, filt, mm, k, s, t - 1)

\* columns of valid output positions: 0 <= k <= (fc - W) / stride
OutCols == (feature.cols - filter.cols) \div stride + 1

\* The stepwise run of convolve() leaves what ConvolveResult computes.
ConvolveResultAgrees ==
  cpc = "returned" =>
    \E g \in Garbage : pdf = ConvolveResult(feature, filter, stride, g)

\* C1: when convolve() has returned, the value written for every valid output
\* position (mm, k) is the full inner product of the filter with the window of
\* the feature map at row mm, column k*stride: all H filter rows contribute.
C1_FullInnerProduct ==
  cpc = "returned" =>
    \A mm \in 0..(feature.rows - filter.rows), k \in 0..(OutCols - 1) :
      pdf.data[mm * OutCols + k + 1] =
        InnerProduct(feature, filter, mm, k, stride, filter.rows * filter.cols)

\* C2: when convolve() has returned, the response map has fr-H+1 rows and
\* (fc-W+stride)/stride columns, and the number of values written is rows*cols.
C2_ResponseShape ==
  cpc = "returned" =>
    /\ pdf.rows = feature.rows - filter.rows + 1
    /\ pdf.cols = (feature.cols - filter.cols + stride) \div stride
    /\ pdf_ptr = pdf.rows * pdf.cols

\* C3 as stated: a call whose filter has a per-cell channel depth other than
\* the stride (= flen) never creates or returns a response map.
C3_DepthMismatchRejected ==
  filterDepth /= stride => (cpc \notin {"loop", "returned"} /\ pdf = NoMat)

\* C3 amended: a call in which the element types differ, or the column count of
\* the feature map or of the filter is not a multiple of stride, stops at the
\* assertions and creates no response map.
C3_ColumnMismatchRejected ==
  (\/ feature.depth /= filter.depth
   \/ feature.cols % stride /= 0
   \/ filter.cols % stride /= 0)
    => (cpc \in {"assert", "assert_failed"} /\ pdf = NoMat /\ pdf_ptr = 0)

\* C3 witness: a filter of another channel depth, with a column count that is
\* not a multiple of stride, has failed the assertion.
C3_Witness ==
  /\ cpc = "assert_failed"
  /\ filterDepth /= stride
  /\ feature.depth = filter.depth
  /\ feature.cols % stride = 0
  /\ filter.cols % stride /= 0

----------------------------------------------------------------------------
(* Claims about pdf(), checked under SpecPdf *)

\* C7: no entry of responses is ever written twice; when pdf() has returned,
\* responses has M*N entries, every entry was written exactly once, entry i is
\* the response of feature map i / N to filter i % N, and with M = 0 or N = 0
\* the collection is empty and convolve() was never called.
C7_DisjointSlots ==
  /\ ppc \in {"parallel", "aborted", "returned"} =>
       \A i \in Iterations : writes[i] <= 1
  /\ ppc = "returned" =>
       /\ Len(responses) = Len(features) * Len(filters)
       /\ calls = Len(features) * Len(filters)
       /\ \A i \in Iterations :
            /\ writes[i] = 1
            /\ responses[i + 1] =
                 ConvolveResult(features[(i \div Len(filters)) + 1],
                                filters[(i % Len(filters)) + 1], flen_, heap)
       /\ (Len(features) = 0 \/ Len(filters) = 0) =>
            (responses = <<>> /\ calls = 0)

\* C7 witness: pdf() has returned with two feature maps and two filters, and
\* the four responses differ from one another.
C7_Witness ==
  /\ ppc = "returned"
  /\ Len(features) = 2 /\ Len(filters) = 2
  /\ \A i, j \in 1..4 : i /= j => responses[i] /= responses[j]

----------------------------------------------------------------------------
(* pyramid() *)

MaxScales == 5    \* nscales_
MaxIm     == 4    \* image height and width, in multiples of 8 pixels

\* Resolution of the fixed-point numbers that stand for values of type T and
\* float: the value v is the integer v * FP.
FP == 100

\* length of the feature vector features() writes per cell (lines 239-271):
\* 18 contrast-sensitive, 9 contrast-insensitive, 4 texture, 1 truncation
HalfOrient == 9
Norient == 2 * HalfOrient
Flen == Norient + HalfOrient + 4 + 1

\* An image of the pyramid: its size, and where its pixels come from (the
\* chain whose seed it was resized to, and how often it was downsampled).
NoSrc == [rows |-> 0, cols |-> 0, channels |-> 0, data |-> <<>>]

NoImage == [rows |-> 0, cols |-> 0, depth |-> "none", seed |-> -1, downs |-> 0]

\* line 78: interval = ceil((float)nscales_ / 3.0)
Interval == (nscales_ + 2) \div 3

\* line 79 and 87: 1.0f / pow(sc, i) with sc = 2^(1/interval), times 10000
InvPow(interval, i) ==
  CASE i = 0 -> 10000
    [] interval = 2 /\ i = 1 -> 7071
    [] interval = 3 /\ i = 1 -> 7937
    [] interval = 3 /\ i = 2 -> 6300

\* line 87: one dimension of imsize * (1.0f/pow(sc,i)), rounded to an int
ScaleDim(dim, interval, i) == (dim * InvPow(interval, i) + 5000) \div 10000

\* line 87: resize(im, scaled, imsize * (1.0f/pow(sc,i)))
Resize(image, interval, i) ==
  [rows |-> ScaleDim(image.rows, interval, i),
   cols |-> ScaleDim(image.cols, interval, i),
   depth |-> image.depth, seed |-> i, downs |-> 0]

\* line 92: pyrDown(scaled, scaled2): half the size, rounded up
PyrDown(image) ==
  [rows |-> (image.rows + 1) \div 2, cols |-> (image.cols + 1) \div 2,
   depth |-> image.depth, seed |-> image.seed, downs |-> image.downs + 1]

\* lines 137-138: round((float)size / (float)binsize_), halves away from zero
RoundDiv(a, b) == (2 * a + b) \div (2 * b)

\* lines 136-141: blocks and outsize of an image with the given rows/cols
Blocks(rows, cols) ==
  [height |-> RoundDiv(rows, binsize_), width |-> RoundDiv(cols, binsize_)]

Outsize(rows, cols) ==
  [height |-> Max(Blocks(rows, cols).height - 2, 0),
   width  |-> Max(Blocks(rows, cols).width - 2, 0)]

\* lines 105-108: features<IT>(pyraimages[n], feature).  The grid has the size
\* features() gives it (line 146); its values stand for those features()
\* computes from the pixels: a function of the image and of the position.
FeatureOf(image) ==
  LET o == Outsize(image.rows, image.cols)
  IN  [rows |-> o.height, cols |-> o.width * flen_, depth |-> "CV_32F",
       data |-> [k \in 1..(o.height * o.width * flen_) |->
                   (k * (image.seed + 2) + image.downs) % 3]]

\* line 111: copyMakeBorder(feature, padded, top, bottom, left, right,
\* BORDER_CONSTANT, value)
CopyMakeBorder(mat, top, bottom, left, right, value) ==
  LET rows == mat.rows + top + bottom
      cols == mat.cols + left + right
  IN  [rows |-> rows, cols |-> cols, depth |-> mat.depth,
       data |-> [k \in 1..(rows * cols) |->
          LET r == (k - 1) \div cols
              c == (k - 1) % cols
          IN  IF /\ r >= top /\ r < top + mat.rows
                 /\ c >= left /\ c < left + mat.cols
              THEN mat.data[(r - top) * mat.cols + (c - left) + 1]
              ELSE value]]

\* line 111: the arguments pyramid() passes
Pad(feat) == CopyMakeBorder(feat, 1, 1, flen_, flen_, 1)

\* lines 104-109: the element types the switch handles
Supported == {"CV_32F", "CV_64F", "CV_8U", "CV_16U"}

Chains == 0..(Interval - 1)
Levels == 0..(nscales_ - 1)

PyrInit ==
  /\ flen_ = Flen
  /\ binsize_ = 8
  /\ nscales_ \in 0..MaxScales
  /\ scales_ = <<>>
  /\ \E r \in 3..MaxIm, c \in 3..MaxIm, d \in {"CV_8U", "CV_32F", "CV_16S"} :
       im = [rows |-> 8 * r, cols |-> 8 * c + 4, depth |-> d,
             seed |-> -1, downs |-> 0]
  /\ pyraimages = <<>>
  /\ pyrafeatures = <<>>
  /\ scaled = <<>>
  /\ chainj = <<>>
  /\ rawfeature = <<>>
  /\ lpc = <<>>
  /\ pypc = "start"

\* lines 68-79: the vectors are cleared and resized to nscales_ elements
PyramidResize ==
  /\ pypc = "start"
  /\ pyraimages' = [k \in 1..nscales_ |-> NoImage]
  /\ pyrafeatures' = [k \in 1..nscales_ |-> NoMat]
  /\ scales_' = [k \in 1..nscales_ |-> 0]
  /\ scaled' = [i \in Chains |-> NoImage]
  /\ chainj' = [i \in Chains |-> -1]
  /\ rawfeature' = [l \in Levels |-> NoMat]
  /\ lpc' = [l \in Levels |-> "todo"]
  /\ pypc' = "scaling"
  /\ UNCHANGED <<flen_, binsize_, nscales_, im>>
  /\ UNCHANGED <<convVars, pdfVars, featVars>>

\* lines 86-88 of iteration i of the first parallel loop
PyramidSeed(i) ==
  /\ pypc = "scaling"
  /\ chainj[i] = -1
  /\ scaled' = [scaled EXCEPT ![i] = Resize(im, Interval, i)]
  /\ pyraimages' = [pyraimages EXCEPT ![i + 1] = Resize(im, Interval, i)]
  /\ chainj' = [chainj EXCEPT ![i] = i + Interval]
  /\ UNCHANGED <<im, pyrafeatures, rawfeature, lpc, pypc>>
  /\ UNCHANGED <<convVars, pdfVars, instVars, featVars>>

\* lines 90-94 of iteration i: one pass of the inner loop.  scaled2 is
\* computed from scaled, which the loop never assigns.
PyramidDown(i) ==
  /\ pypc = "scaling"
  /\ chainj[i] >= 0
  /\ chainj[i] < nscales_
  /\ pyraimages' = [pyraimages EXCEPT ![chainj[i] + 1] = PyrDown(scaled[i])]
  /\ chainj' = [chainj EXCEPT ![i] = @ + Interval]
  /\ UNCHANGED <<im, pyrafeatures, scaled, rawfeature, lpc, pypc>>
  /\ UNCHANGED <<convVars, pdfVars, instVars, featVars>>

\* the first loop has joined: every chain has run past nscales_
ScalingDone == \A i \in Chains : chainj[i] >= nscales_

\* lines 102-112 of iteration l of the second parallel loop
PyramidFeature(l) ==
  /\ pypc = "scaling"
  /\ ScalingDone
  /\ lpc[l] = "todo"
  /\ im.depth \in Supported
  /\ rawfeature' = [rawfeature EXCEPT ![l] = FeatureOf(pyraimages[l + 1])]
  /\ pyrafeatures' = [pyrafeatures EXCEPT ![l + 1] =
                        Pad(FeatureOf(pyraimages[l + 1]))]
  /\ lpc' = [lpc EXCEPT ![l] = "done"]
  /\ UNCHANGED <<im, pyraimages, scaled, chainj, pypc>>
  /\ UNCHANGED <<convVars, pdfVars, instVars, featVars>>

\* line 109: CV_Error(CV_StsUnsupportedFormat, ...)
PyramidUnsupported(l) ==
  /\ pypc = "scaling"
  /\ ScalingDone
  /\ lpc[l] = "todo"
  /\ im.depth \notin Supported
  /\ pypc' = "error"
  /\ UNCHANGED <<im, pyraimages, pyrafeatures, scaled, chainj, rawfeature, lpc>>
  /\ UNCHANGED <<convVars, pdfVars, instVars, featVars>>

\* line 114: the second loop has joined
PyramidReturn ==
  /\ pypc = "scaling"
  /\ ScalingDone
  /\ \A l \in Levels : lpc[l] = "done"
  /\ pypc' = "returned"
  /\ UNCHANGED <<im, pyraimages, pyrafeatures, scaled, chainj, rawfeature, lpc>>
  /\ UNCHANGED <<convVars, pdfVars, instVars, featVars>>

----------------------------------------------------------------------------
(* Claims about pyramid(), checked under SpecPyr *)

\* C4: when pyramid() has returned with nscales_ >= 1, scales_ has nscales_
\* entries, the first is 1.0 and each entry is strictly smaller than the one
\* before it.
C4_ScalesDecreasing ==
  (pypc = "returned" /\ nscales_ >= 1) =>
    /\ Len(scales_) = nscales_
    /\ scales_[1] = FP
    /\ \A k \in 1..(nscales_ - 1) : scales_[k + 1] < scales_[k]

\* C5: when pyramid() has returned, every level's feature map is the raw grid
\* with 1 row added on top and bottom and flen_ columns on the left and right,
\* and every element outside the raw grid is 0.
C5_ZeroBorder ==
  pypc = "returned" =>
    \A l \in Levels :
      LET raw == rawfeature[l]
          padded == pyrafeatures[l + 1]
      IN  /\ padded.rows = raw.rows + 2
          /\ padded.cols = raw.cols + 2 * flen_
          /\ \A r \in 0..(padded.rows - 1), c \in 0..(padded.cols - 1) :
               padded.data[r * padded.cols + c + 1] =
                 IF /\ r >= 1 /\ r <= raw.rows
                    /\ c >= flen_ /\ c < flen_ + raw.cols
                 THEN raw.data[(r - 1) * raw.cols + (c - flen_) + 1]
                 ELSE 0

\* the image k successive 2x downsamplings make of an image
RECURSIVE Halved(_, _)
Halved(image, k) == IF k = 0 THEN image ELSE PyrDown(Halved(image, k - 1))

\* C8: when pyramid() has returned, level i + k*interval holds the seed image
\* of chain i downsampled k times in succession, and no two levels of one
\* chain hold images of the same size.
C8_ChainDownsampling ==
  pypc = "returned" =>
    \A i \in Chains :
      /\ \A k \in 1..nscales_ :
           i + k * Interval < nscales_ =>
             pyraimages[i + k * Interval + 1] = Halved(pyraimages[i + 1], k)
      /\ \A j1, j2 \in Levels :
           (j1 /= j2 /\ j1 % Interval = i /\ j2 % Interval = i) =>
             <<pyraimages[j1 + 1].rows, pyraimages[j1 + 1].cols>> /=
               <<pyraimages[j2 + 1].rows, pyraimages[j2 + 1].cols>>

----------------------------------------------------------------------------
(* features() *)

MaxDim     == 7   \* image height and width in pixels, at least 5
MaxPix     == 2   \* largest pixel value
MaxPattern == 4   \* number of pixel patterns, minus 1

\* the values of binsize_ the extractor is run with
BinSizes == {2, 4}

\* floor(sqrt(a)) for 0 <= a < 2^31, by bisection
RECURSIVE Bisect(_, _, _)
Bisect(a, lo, hi) ==
  IF lo >= hi THEN lo
  ELSE LET mid == (lo + hi + 1) \div 2
       IN  IF mid * mid <= a THEN Bisect(a, mid, hi) ELSE Bisect(a, lo, mid - 1)

ISqrt(a) == Bisect(a, 0, 46340)

\* The pixel at offset k of the buffer of a cols-wide, rows-high image.
ImagePixel(pat, amp, k, cols, rows) ==
  LET xx == k % cols
      yy == (k \div cols) % rows
      plane == k \div (cols * rows)
  IN  CASE pat = 0 -> amp
        [] pat = 1 -> IF xx < cols \div 2 THEN 0 ELSE amp
        [] pat = 2 -> IF yy < rows \div 2 THEN 0 ELSE amp
        [] pat = 3 -> (xx + 2 * yy + plane) % (amp + 1)
        [] OTHER   -> (pat * xx + 3 * yy + xx * yy + 5 * plane) % (amp + 1)

\* lines 134-142
Color == src.channels = 3
BlocksOf == Blocks(src.rows, src.cols)
OutsizeOf == Outsize(src.rows, src.cols)
Visible == [height |-> BlocksOf.height * binsize_,
            width  |-> BlocksOf.width * binsize_]

\* lines 152-153, times 10000
UU == <<10000, 9397, 7660, 5000, 1736, -1736, -5000, -7660, -9397>>
VV == <<0, 3420, 6428, 8660, 9848, 9848, 8660, 6428, 3420>>

\* lines 165-181: the gradient <<dx, dy, v>> of channel ch at pixel (py, px)
ChannelGradient(py, px, ch) ==
  LET w == src.cols
      s == Min(px, src.cols - 2) + Min(py, src.rows - 2) * w
             + ch * (src.cols * src.rows)
      dy == Deref(src, s + w) - Deref(src, s - w)
      dx == Deref(src, s + 1) - Deref(src, s - 1)
  IN  <<dx, dy, dx * dx + dy * dy>>

\* lines 165-186: the gradient of the channel with the strongest gradient
Gradient(py, px) ==
  LET g0 == ChannelGradient(py, px, 0)
  IN  IF ~Color THEN g0
      ELSE LET g1 == ChannelGradient(py, px, 1)
               g2 == ChannelGradient(py, px, 2)
               a  == IF g1[3] > g0[3] THEN g1 ELSE g0
           IN  IF g2[3] > a[3] THEN g2 ELSE a

\* lines 189-195: snap to one of 18 orientations
RECURSIVE Snap(_, _, _, _, _)
Snap(dx, dy, o, best_dot, best_o) ==
  IF o >= Norient \div 2 THEN best_o
  ELSE LET dot == UU[o + 1] * dx + VV[o + 1] * dy
       IN  IF dot > best_dot THEN Snap(dx, dy, o + 1, dot, o)
           ELSE IF -dot > best_dot THEN Snap(dx, dy, o + 1, -dot, o + 9)
           ELSE Snap(dx, dy, o + 1, best_dot, best_o)

BestO(py, px) == Snap(Gradient(py, px)[1], Gradient(py, px)[2], 0, 0, 0)

\* lines 198-199: yp = ((T)y+0.5)/(T)binsize_ - 0.5, in units of 1/(2*binsize_)
CellCoord(pix) == 2 * pix + 1 - binsize_

\* lines 200-201: (int)floor(yp)
CellFloor(pix) == CellCoord(pix) \div (2 * binsize_)

\* lines 202-203: vy0 = yp - iyp, in units of 1/(2*binsize_)
V0(pix) == CellCoord(pix) - CellFloor(pix) * (2 * binsize_)

\* lines 204-205: vy1 = 1.0 - vy0
V1(pix) == 2 * binsize_ - V0(pix)

\* line 206: v = sqrt(v), in units of 1/FP
Magnitude(py, px) == ISqrt(Gradient(py, px)[3] * FP * FP)

\* a product wa * wb * v of two weights and the magnitude, in units of 1/FP
Weighted(wa, wb, v) == (wa * wb * v) \div (4 * binsize_ * binsize_)

\* the offset of hist[by][bx][o] in histm
HistAt(by, bx, o) == (by * BlocksOf.width + bx) * Norient + o

\* lines 208-211: the four stores of pixel (py, px) into hist
Store(hist, cond, off, val) == IF cond THEN [hist EXCEPT ![off + 1] = val] ELSE hist

HistStores(hist, py, px) ==
  LET iyp == CellFloor(py)
      ixp == CellFloor(px)
      vy0 == V0(py)
      vx0 == V0(px)
      vy1 == V1(py)
      vx1 == V1(px)
      v   == Magnitude(py, px)
      o   == BestO(py, px)
      h1 == Store(hist, iyp >= 0 /\ ixp >= 0,
                  HistAt(iyp, ixp, o), Weighted(vy1, vx1, v))
      h2 == Store(h1, iyp >= 0 /\ ixp + 1 < BlocksOf.width,
                  HistAt(iyp, ixp + 1, o), Weighted(vx1, vy0, v))
      h3 == Store(h2, iyp + 1 < BlocksOf.height /\ ixp >= 0,
                  HistAt(iyp + 1, ixp, o), Weighted(vy1, vx0, v))
  IN  Store(h3, iyp + 1 < BlocksOf.height /\ ixp + 1 < BlocksOf.width,
            HistAt(iyp + 1, ixp + 1, o), Weighted(vy0, vx0, v))

\* lines 216-218: the energy of block i, in units of 1/(FP*FP)
RECURSIVE Energy(_, _, _)
Energy(hist, i, o) ==
  IF o >= 9 THEN 0
  ELSE LET a == hist[i * Norient + o + 1] + hist[i * Norient + Norient \div 2 + o + 1]
       IN  a * a + Energy(hist, i, o + 1)

\* lines 226, 228, 230, 232: p - norm for the scalar nK of cell (cy, cx)
NormPtr(cy, cx, K) ==
  CASE K = 1 -> (cy + 1) * OutsizeOf.width + (cx + 1)
    [] K = 2 -> cy * OutsizeOf.width + (cx + 1)
    [] K = 3 -> (cy + 1) * OutsizeOf.width + cx
    [] K = 4 -> cy * OutsizeOf.width + cx

\* lines 227, 229, 231, 233: the four elements of norm read through p
NormReads(p) == <<p, p + 1, p + OutsizeOf.width, p + OutsizeOf.width + 1>>

\* line 149, in units of 1/(FP*FP)
Eps == (FP * FP) \div 10000

\* lines 227-233: nK = 1.0f / sqrt(*p + *(p+1) + ... + eps), in units of 1/FP
NormScalar(norm, p) ==
  LET r == NormReads(p)
      sum == norm[r[1] + 1] + norm[r[2] + 1] + norm[r[3] + 1] + norm[r[4] + 1] + Eps
  IN  ISqrt((FP * FP * FP * FP) \div sum)

\* lines 240-243, 256-259: min(value, (T)0.2)
NoTruncate(v) == v

Truncate(v) == Min(v, FP \div 5)

\* hK = min(value * nK, 0.2)
Normalized(value, nK) == Truncate((value * nK) \div FP)

\* t1..t4 of lines 246-249: the sum over the 18 bins of hK
RECURSIVE TSum(_, _, _)
TSum(sens, K, o) == IF o = 0 THEN 0 ELSE sens[o][K] + TSum(sens, K, o - 1)

\* lines 223-271: the flen_ values written for cell (cy, cx)
CellVector(hist, norm, cy, cx) ==
  LET base == ((cy + 1) * BlocksOf.width + (cx + 1)) * Norient
      nK == [K \in 1..4 |-> NormScalar(norm, NormPtr(cy, cx, K))]
      H(value) == [K \in 1..4 |-> Normalized(value, nK[K])]
      Half(h) == (h[1] + h[2] + h[3] + h[4]) \div 2
      sens == [o \in 1..Norient |-> H(hist[base + o])]
  IN  [j \in 1..Flen |->
         IF j <= Norient THEN Half(sens[j])
         ELSE IF j <= Norient + Norient \div 2
              THEN Half(H(hist[base + (j - Norient)]
                          + hist[base + (j - Norient) + Norient \div 2]))
         ELSE IF j <= Norient + Norient \div 2 + 4
              THEN (2357 * TSum(sens, j - Norient - Norient \div 2, Norient)) \div 10000
         ELSE 0]

FeatInit ==
  /\ flen_ = Flen
  /\ binsize_ \in BinSizes
  /\ nscales_ = 0
  /\ scales_ = <<>>
  /\ \E rows \in 5..MaxDim, cols \in 5..MaxDim, channels \in {1, 3},
        pat \in 0..MaxPattern, amp \in 1..MaxPix :
       src = [rows |-> rows, cols |-> cols, channels |-> channels,
              data |-> [k \in 1..(rows * cols * channels) |->
                          ImagePixel(pat, amp, k - 1, cols, rows)]]
  /\ histm = <<>>
  /\ normm = <<>>
  /\ featm = <<>>
  /\ y = 0
  /\ x = 0
  /\ pn = <<>>
  /\ fpc = "start"

\* lines 134-159: the three matrices are allocated and zeroed
FeaturesAlloc ==
  /\ fpc = "start"
  /\ histm' = [k \in 1..(BlocksOf.width * Norient * BlocksOf.height) |-> 0]
  /\ normm' = [k \in 1..(BlocksOf.width * BlocksOf.height) |-> 0]
  /\ featm' = [k \in 1..(OutsizeOf.width * flen_ * OutsizeOf.height) |-> 0]
  /\ y' = 1
  /\ x' = 1
  /\ fpc' = "gradient"
  /\ UNCHANGED <<src, pn>>
  /\ UNCHANGED <<convVars, pdfVars, instVars, pyrVars>>

\* lines 161-213: one pixel of the gradient pass
GradientPixel ==
  /\ fpc = "gradient"
  /\ y < Visible.height - 1
  /\ x < Visible.width - 1
  /\ histm' = HistStores(histm, y, x)
  /\ IF x + 1 < Visible.width - 1
     THEN x' = x + 1 /\ y' = y
     ELSE x' = 1 /\ y' = y + 1
  /\ UNCHANGED <<src, normm, featm, pn, fpc>>
  /\ UNCHANGED <<convVars, pdfVars, instVars, pyrVars>>

\* the loops of lines 161-162 are over
GradientOver == y >= Visible.height - 1 \/ Visible.width - 1 <= 1

\* lines 216-218: the energy of every block
EnergyPass ==
  /\ fpc = "gradient"
  /\ GradientOver
  /\ normm' = [k \in 1..Len(normm) |-> normm[k] + Energy(histm, k - 1, 0)]
  /\ y' = 0
  /\ x' = 0
  /\ fpc' = "cells"
  /\ UNCHANGED <<src, histm, featm, pn>>
  /\ UNCHANGED <<convVars, pdfVars, instVars, pyrVars>>

\* lines 221-273: one output cell
FeatureCell ==
  /\ fpc = "cells"
  /\ y < OutsizeOf.height
  /\ x < OutsizeOf.width
  /\ pn' = [cell |-> <<y, x>>,
            reads |-> [K \in 1..4 |-> NormReads(NormPtr(y, x, K))]]
  /\ LET dst == (y * OutsizeOf.width + x) * flen_
         vec == CellVector(histm, normm, y, x)
     IN  featm' = [k \in 1..Len(featm) |->
                     IF k > dst /\ k <= dst + Flen THEN vec[k - dst] ELSE featm[k]]
  /\ IF x + 1 < OutsizeOf.width
     THEN x' = x + 1 /\ y' = y
     ELSE x' = 0 /\ y' = y + 1
  /\ UNCHANGED <<src, histm, normm, fpc>>
  /\ UNCHANGED <<convVars, pdfVars, instVars, pyrVars>>

\* line 274
FeaturesReturn ==
  /\ fpc = "cells"
  /\ (y >= OutsizeOf.height \/ OutsizeOf.width = 0)
  /\ fpc' = "returned"
  /\ UNCHANGED <<src, histm, normm, featm, y, x, pn>>
  /\ UNCHANGED <<convVars, pdfVars, instVars, pyrVars>>

----------------------------------------------------------------------------
(* Claims about features(), checked under SpecFeat *)

\* the contrast-sensitive and contrast-insensitive values of featm: the first
\* 27 of the flen_ values of every cell
HistogramFeatures ==
  {k \in 1..Len(featm) : (k - 1) % flen_ < Norient + Norient \div 2}

\* C6 as stated: every contrast-sensitive and contrast-insensitive value
\* written to a cell lies in [0, 0.2].
C6_WithinFifth ==
  \A k \in HistogramFeatures : featm[k] >= 0 /\ featm[k] <= FP \div 5

\* C6 amended: every contrast-sensitive and contrast-insensitive value written
\* to a cell lies in [0, 0.4]: it is half the sum of four terms, each of which
\* is truncated to 0.2.
C6_WithinTwoFifths ==
  \A k \in HistogramFeatures : featm[k] >= 0 /\ featm[k] <= (2 * FP) \div 5

\* C6 witness: features() has returned a grid in which a contrast-sensitive or
\* contrast-insensitive value exceeds 0.2.
C6_Witness ==
  /\ fpc = "returned"
  /\ \E k \in HistogramFeatures : featm[k] > FP \div 5

Abs(a) == IF a < 0 THEN -a ELSE a

\* magnitude * (1 - |yp - by|) * (1 - |xp - bx|) of pixel (py, px) for block
\* (by, bx) and bin o; 0 when the pixel snaps to another bin or the block is
\* not one of its four nearest
Contribution(py, px, by, bx, o) ==
  IF /\ BestO(py, px) = o
     /\ by \in {CellFloor(py), CellFloor(py) + 1}
     /\ bx \in {CellFloor(px), CellFloor(px) + 1}
  THEN Weighted(2 * binsize_ - Abs(CellCoord(py) - by * 2 * binsize_),
                2 * binsize_ - Abs(CellCoord(px) - bx * 2 * binsize_),
                Magnitude(py, px))
  ELSE 0

\* the sum of the contributions of the first t visited pixels
RECURSIVE ContributionSum(_, _, _, _)
ContributionSum(t, by, bx, o) ==
  IF t = 0 THEN 0
  ELSE Contribution(1 + (t - 1) \div (Visible.width - 2),
                    1 + ((t - 1) % (Visible.width - 2)), by, bx, o)
       + ContributionSum(t - 1, by, bx, o)

\* C9: after the gradient pass, hist[by][bx][o] is the sum over the visited
\* pixels that snap to bin o and have (by, bx) among their four nearest cells
\* of magnitude * (1 - |yp - by|) * (1 - |xp - bx|).
C9_BilinearAccumulation ==
  (fpc = "gradient" /\ GradientOver) =>
    \A by \in 0..(BlocksOf.height - 1), bx \in 0..(BlocksOf.width - 1),
       o \in 0..(Norient - 1) :
      histm[HistAt(by, bx, o) + 1] =
        ContributionSum((Visible.height - 2) * (Visible.width - 2), by, bx, o)

\* C10: for the cell features() has just computed, each of the scalars n1..n4
\* is read from one 2x2 set of adjacent blocks {(r,c), (r,c+1), (r+1,c),
\* (r+1,c+1)} of the block grid, with (r,c) = (y+1,x+1), (y,x+1), (y+1,x),
\* (y,x), and each set contains block (y+1, x+1).
C10_NormNeighbourhoods ==
  (fpc \in {"cells", "returned"} /\ pn /= <<>>) =>
    LET cy == pn.cell[1]
        cx == pn.cell[2]
        corner == <<<<cy + 1, cx + 1>>, <<cy, cx + 1>>, <<cy + 1, cx>>, <<cy, cx>>>>
        BlockOf(off) == <<off \div BlocksOf.width, off % BlocksOf.width>>
    IN  \A K \in 1..4 :
          LET r == corner[K][1]
              c == corner[K][2]
              read == {BlockOf(pn.reads[K][j]) : j \in 1..4}
          IN  /\ read = {<<r, c>>, <<r, c + 1>>, <<r + 1, c>>, <<r + 1, c + 1>>}
              /\ <<cy + 1, cx + 1>> \in read

----------------------------------------------------------------------------
(* Specifications *)

ConvIdle ==
  /\ feature = NoMat /\ filter = NoMat /\ stride = 1 /\ filterDepth = 1
  /\ pdf = NoMat /\ pdf_ptr = 0 /\ m = 0 /\ n = 0 /\ cpc = "idle"

PdfIdle ==
  /\ features = <<>> /\ filters = <<>> /\ heap = 0
  /\ responses = <<>> /\ response = <<>> /\ ipc = <<>> /\ writes = <<>>
  /\ calls = 0 /\ ppc = "idle"

InstIdle ==
  /\ flen_ = 1 /\ binsize_ = 1 /\ nscales_ = 0 /\ scales_ = <<>>

PyrIdle ==
  /\ im = NoImage /\ pyraimages = <<>> /\ pyrafeatures = <<>> /\ scaled = <<>>
  /\ chainj = <<>> /\ rawfeature = <<>> /\ lpc = <<>> /\ pypc = "idle"

FeatIdle ==
  /\ src = NoSrc /\ histm = <<>> /\ normm = <<>> /\ featm = <<>>
  /\ y = 0 /\ x = 0 /\ pn = <<>> /\ fpc = "idle"

InitConv == ConvInit /\ PdfIdle /\ InstIdle /\ PyrIdle /\ FeatIdle

NextConv ==
  \/ ConvolveAssertFails
  \/ ConvolveCreate
  \/ ConvolveWrite
  \/ ConvolveReturn

SpecConv == InitConv /\ [][NextConv]_vars

InitPdf == PdfInit /\ ConvIdle /\ PyrIdle /\ FeatIdle

NextPdf ==
  \/ PdfResize
  \/ \E i \in Iterations : PdfConvolve(i)
  \/ \E i \in Iterations : PdfAbort(i)
  \/ \E i \in Iterations : PdfStore(i)
  \/ PdfReturn

SpecPdf == InitPdf /\ [][NextPdf]_vars

InitPyr == PyrInit /\ ConvIdle /\ PdfIdle /\ FeatIdle

NextPyr ==
  \/ PyramidResize
  \/ \E i \in Chains : PyramidSeed(i)
  \/ \E i \in Chains : PyramidDown(i)
  \/ \E l \in Levels : PyramidFeature(l)
  \/ \E l \in Levels : PyramidUnsupported(l)
  \/ PyramidReturn

SpecPyr == InitPyr /\ [][NextPyr]_vars

InitFeat == FeatInit /\ ConvIdle /\ PdfIdle /\ PyrIdle

NextFeat ==
  \/ FeaturesAlloc
  \/ GradientPixel
  \/ EnergyPass
  \/ FeatureCell
  \/ FeaturesReturn

SpecFeat == InitFeat /\ [][NextFeat]_vars

====
